---- MODULE Spec2Model ----
(***************************************************************************)
(* A state-machine model of spaceKLIP/psf.py: the class JWST_PSF, which    *)
(* builds an on-axis and an off-axis reference PSF at construction and     *)
(* then synthesises coronagraphic PSFs at queried positions.               *)
(*                                                                         *)
(* Numbers.  Images are functions from pixels to integers.  Angles are     *)
(* integer degrees, multiples of 90, where rotation and sin/cos are exact. *)
(* The frames returned by gen_psf_idl carry the common denominator         *)
(* OutDen = TDen*TDen*BarStep (transmission squared, times the node        *)
(* spacing of the bar interpolation), so all arithmetic is exact.          *)
(* A result of gen_psf is a record [frames, den]: the value of a pixel is  *)
(* frames[i][p] / den, and den = 0 stands for the 0/0 of a division by a   *)
(* zero sum (NaN).                                                         *)
(***************************************************************************)
EXTENDS Integers, Sequences, FiniteSets, TLC

(***************************************************************************)
(* Bounds of the model.                                                    *)
(***************************************************************************)
\* largest number of positions in one batched query
MaxBatch == 2
\* largest number of _shift_psfs / _recenter_psfs calls after construction
MaxShiftCalls == 1
\* amplitude transmissions are the fractions 0/TDen .. TDen/TDen
TDen == 2
\* fov_pix, the field of view in detector pixels given to __init__
FovPix == 1

(***************************************************************************)
(* Program constants.                                                      *)
(***************************************************************************)
\* oversample=2, the default of __init__
Oversample == 2
\* xysub=10, the default of _calc_psf_off_shift
XySub == 10
\* for ii in range(2)
NPasses == 2

NX == FovPix * Oversample
Pix == (0 .. NX - 1) \X (0 .. NX - 1)

None == "None"
Unset == "unset"

Abs(v) == IF v < 0 THEN -v ELSE v

RECURSIVE SumOver(_, _)
SumOver(f, S) ==
    IF S = {} THEN 0
    ELSE LET p == CHOOSE q \in S : TRUE IN f[p] + SumOver(f, S \ {p})

\* np.sum of one image
np_sum(img) == SumOver(img, DOMAIN img)

RECURSIVE SumFrames(_)
\* np.sum of a stack of images
SumFrames(frames) ==
    IF frames = <<>> THEN 0
    ELSE np_sum(Head(frames)) + SumFrames(Tail(frames))

ZeroImage == [p \in Pix |-> 0]

(***************************************************************************)
(* The library functions the class calls (webbpsf_ext, scipy, numpy).      *)
(***************************************************************************)
\* webbpsf_ext.image_manip.fourier_imshift(image, xshift, yshift, pad=True):
\* a translation that fills with zeros what enters from outside the image.
fourier_imshift(img, dx, dy) ==
    [p \in DOMAIN img |->
        LET q == <<p[1] - dx, p[2] - dy>>
        IN  IF q \in DOMAIN img THEN img[q] ELSE 0]

\* fourier_imshift of a cube: every image of the cube by the same amount
fourier_imshift_cube(cube, dx, dy) ==
    [i \in 1 .. Len(cube) |-> fourier_imshift(cube[i], dx, dy)]

\* webbpsf_ext.image_manip.frebin(image, scale=1/osamp): every detector pixel
\* is the total of its osamp x osamp block (the total flux is conserved).
frebin(img) ==
    [d \in {<<p[1] \div Oversample, p[2] \div Oversample>> : p \in DOMAIN img} |->
        SumOver(img, {p \in DOMAIN img : p[1] \div Oversample = d[1]
                                         /\ p[2] \div Oversample = d[2]})]

frebin_cube(cube) == [i \in 1 .. Len(cube) |-> frebin(cube[i])]

\* an angle in degrees, reduced to 0, 90, 180 or 270
Deg(a) == a % 360

\* the number of pixels along a side of a square image
Side(img) == Cardinality({p[1] : p \in DOMAIN img})

Rot90(img) == [p \in DOMAIN img |-> img[<<p[2], Side(img) - 1 - p[1]>>]]

\* scipy.ndimage rotate(img, angle, reshape=False, mode='constant', cval=0)
rotate(img, angle) ==
    LET a == Deg(angle)
    IN  IF a = 0 THEN img
        ELSE IF a = 90 THEN Rot90(img)
        ELSE IF a = 180 THEN Rot90(Rot90(img))
        ELSE Rot90(Rot90(Rot90(img)))

rotate_cube(cube, angle) == [i \in 1 .. Len(cube) |-> rotate(cube[i], angle)]

Sin(a) == CASE Deg(a) = 0 -> 0 [] Deg(a) = 90 -> 1 [] Deg(a) = 180 -> 0 [] OTHER -> -1
Cos(a) == CASE Deg(a) = 0 -> 1 [] Deg(a) = 90 -> 0 [] Deg(a) = 180 -> -1 [] OTHER -> 0

\* webbpsf_ext.coords.rtheta_to_xy(r, theta): angles East of North
rtheta_to_xy(r, th) == <<-r * Sin(th), r * Cos(th)>>

\* np.linspace(a, b, n)
linspace(a, b, n) == [i \in 1 .. n |-> a + ((i - 1) * (b - a)) \div (n - 1)]

(***************************************************************************)
(* The external collaborators: instrument classes, reference PSFs,         *)
(* transmission map, aperture geometry, spectra and the centroid fit.      *)
(***************************************************************************)
\* mask names are sequences of tokens; the last token is the last character
MASK335R == <<"MASK335", "R">>
MASKLWB == <<"MASKLW", "B">>
FQPM1065 == <<"FQPM", "106", "5">>
LYOT2300 == <<"LYOT", "230", "0">>
WLP8 == <<"WLP", "8">>
NoMask == <<>>
MaskNames == {MASK335R, MASKLWB, FQPM1065, LYOT2300, WLP8, NoMask}

\* image_mask[-1]
LastChar(mask) == mask[Len(mask)]
\* 'FQPM' in image_mask
HasToken(mask, tok) == \E i \in 1 .. Len(mask) : mask[i] = tok

InstNames == {"NIRCAM", "nircam", "MIRI", "NIRSPEC"}
\* inst.upper()
Upper(inst) == IF inst = "nircam" THEN "NIRCAM" ELSE inst

\* the mask kinds the configuration recognises: suffix R, suffix B, FQPM, Lyot
RecognizedMask(mask) ==
    /\ mask # NoMask
    /\ \/ LastChar(mask) \in {"R", "B"}
       \/ HasToken(mask, "FQPM")
       \/ HasToken(mask, "LYOT")
RecognizedInst(inst) == Upper(inst) \in {"NIRCAM", "MIRI"}

\* spectra: a pysynphot spectrum has renorm; a synphot spectrum has waveset
\* and meta but no renorm; "other" has neither.  `fits` tells whether the
\* spectrum can be renormalized in the bandpass at all.
NoSp == [kind |-> "None", norm |-> FALSE, fits |-> FALSE]
Spectra ==
    {NoSp} \cup [kind : {"pysynphot", "synphot", "other"}, norm : {FALSE}, fits : BOOLEAN]

\* sp.renorm(1, 'counts', bandpass) succeeds
CanRenorm(s) == s.kind = "pysynphot" /\ s.fits
renorm(s) == [s EXCEPT !.norm = TRUE]
\* sp.waveset, sp(sp.waveset), sp.meta['name'] exist
CanRebuild(s) == s.kind = "synphot"
\* S.ArraySpectrum(sp.waveset.value, sp(sp.waveset).value, wunit, funit, ...)
ArraySpectrum(s) == [s EXCEPT !.kind = "pysynphot"]

PointSource(pk, flux) == [p \in Pix |-> IF p = pk THEN flux ELSE 0]

\* the pixel the centroid fit calls the centre of an image
CenPix == <<NX \div 2, NX \div 2>>
\* raw off-axis PSFs: a point source at one of these pixels
OffPeaks == {CenPix, <<0, 0>>, <<NX - 1, 0>>}
func_off(pk) == PointSource(pk, 4)

\* raw on-axis PSFs at bar position xv, by the kind the provider returns
OnKinds == {"zero", "flat", "spot"}
func_on(kind, xv) ==
    CASE kind = "zero" -> ZeroImage
      [] kind = "flat" -> [p \in Pix |-> 1]
      [] OTHER -> PointSource(CenPix, 2 + Abs(xv))

\* _transmission_map: the amplitude transmission (numerator over TDen) of the
\* mask at an ideal-frame position, by the profile of the mask
TransProfiles == {"clear", "opaque", "graded"}
TransAt(profile, x, y) ==
    CASE profile = "clear" -> TDen
      [] profile = "opaque" -> 0
      [] OTHER -> IF Abs(x) + Abs(y) = 0 THEN 0
                  ELSE IF Abs(x) + Abs(y) <= 2 THEN 1 ELSE TDen

\* siaf_ap.V3IdlYAngle of the aperture
V3Angles == {0, 90}

\* siaf_ap.convert(x, y, frame, 'idl'): 'sci' is 'idl' reflected in x
Frames == {"idl", "sci"}
convert_to_idl(xy, frame) == IF frame = "idl" THEN xy ELSE <<-xy[1], xy[2]>>
convert_from_idl(xy, frame) == IF frame = "idl" THEN xy ELSE <<-xy[1], xy[2]>>

\* the brightest pixel of an image
ArgMax(img) == CHOOSE p \in Pix : \A q \in Pix : img[q] <= img[p]

\* errors of the Gaussian fit, in pixels
FitErrs == {<<0, 0>>, <<1, 0>>, <<0, -1>>}

(***************************************************************************)
(* The state of one JWST_PSF object and of its caller.                     *)
(***************************************************************************)
VARIABLES
    pc,             \* "new", "ready" (constructed), "failed" (__init__ raised)
    inst_ext,       \* self.inst_ext
    pupil_mask,     \* the pupil_mask __init__ chose
    image_mask,     \* inst_on.image_mask (the image_mask argument)
    inst_on,        \* self.inst_on: transmission profile, V3IdlYAngle, kinds
    psf_on,         \* self.psf_on: a cube of 1 image, or of 9 for a bar mask
    psf_off,        \* self.psf_off: a cube of 1 image
    psf_bar_xvals,  \* self.psf_bar_xvals, <<>> when not set
    xy_off_to_cen,  \* self._xy_off_to_cen
    sp,             \* self.sp
    shift_attr,     \* (self.xoff, self.yoff), <<>> when not set
    fitlog,         \* the passes of the last _calc_psf_off_shift
    built,          \* psf_on, psf_off at the end of __init__
    nshift,         \* number of shifting calls made after construction
    ret             \* the last call: its name, arguments, outcome, result

vars == <<pc, inst_ext, pupil_mask, image_mask, inst_on, psf_on, psf_off,
          psf_bar_xvals, xy_off_to_cen, sp, shift_attr, fitlog, built, nshift, ret>>

\* the reference state the query calls share
refstate == <<psf_on, psf_off, psf_bar_xvals, xy_off_to_cen, sp>>

NoRet ==
    [op |-> "none", status |-> "none", args |-> <<>>, attempts |-> 0,
     rebuilt |-> FALSE, frames |-> <<>>, den |-> 1, steps |-> <<>>, angle |-> 0,
     conv |-> 0]

Init ==
    /\ pc = "new"
    /\ inst_ext = Unset
    /\ pupil_mask = Unset
    /\ image_mask = NoMask
    /\ inst_on = [trans |-> Unset, V3IdlYAngle |-> 0, on |-> Unset,
                  XSciScale |-> 1, YSciScale |-> 1]
    /\ psf_on = <<>>
    /\ psf_off = <<>>
    /\ psf_bar_xvals = <<>>
    /\ xy_off_to_cen = <<0, 0>>
    /\ sp = NoSp
    /\ shift_attr = <<>>
    /\ fitlog = <<>>
    /\ built = <<>>
    /\ nshift = 0
    /\ ret = NoRet

(***************************************************************************)
(* Renormalization of a caller's spectrum.                                 *)
(***************************************************************************)
\* __init__: try sp.renorm; except: rebuild as ArraySpectrum, renorm again
RenormInit(s) ==
    IF s = NoSp
    THEN [status |-> "ok", sp |-> s, attempts |-> 0, rebuilt |-> FALSE]
    ELSE IF CanRenorm(s)
    THEN [status |-> "ok", sp |-> renorm(s), attempts |-> 1, rebuilt |-> FALSE]
    ELSE IF ~CanRebuild(s)
    THEN [status |-> "raise", sp |-> s, attempts |-> 1, rebuilt |-> FALSE]
    ELSE IF CanRenorm(ArraySpectrum(s))
    THEN [status |-> "ok", sp |-> renorm(ArraySpectrum(s)), attempts |-> 2,
          rebuilt |-> TRUE]
    ELSE [status |-> "raise", sp |-> ArraySpectrum(s), attempts |-> 2,
          rebuilt |-> TRUE]

\* gen_psf_idl: sp = sp.renorm(1, 'counts', self.bandpass)
RenormQuery(s) ==
    IF s = NoSp
    THEN [status |-> "ok", sp |-> s, attempts |-> 0, rebuilt |-> FALSE]
    ELSE IF CanRenorm(s)
    THEN [status |-> "ok", sp |-> renorm(s), attempts |-> 1, rebuilt |-> FALSE]
    ELSE [status |-> "raise", sp |-> s, attempts |-> 1, rebuilt |-> FALSE]

(***************************************************************************)
(* Centring.                                                               *)
(***************************************************************************)
VAdd(a, b) == <<a[1] + b[1], a[2] + b[2]>>
VSub(a, b) == <<a[1] - b[1], a[2] - b[2]>>

\* One pass of the loop of _calc_psf_off_shift.  The template is the image
\* `img` moved by `toff` inside its padded window; coordinates of the window
\* are doubled, so that its centre xc = mean(arange(xysub)) is an integer.
\* The fit finds the peak of the template, up to the error `err`.
FitPass(img, toff, err) ==
    LET xc2 == XySub - 1
        peak == VAdd(VSub(ArgMax(img), CenPix), toff)
        mean2 == <<xc2 + 2 * (peak[1] + err[1]), xc2 + 2 * (peak[2] + err[2])>>
        cen == <<(xc2 - mean2[1]) \div 2, (xc2 - mean2[2]) \div 2>>
    IN  [tmpl |-> toff, mean2 |-> mean2, res |-> cen]

RECURSIVE PassLoop(_, _, _, _, _, _)
\* for ii in range(n): fit, accumulate the offsets, shift the template
PassLoop(img, errs, n, ii, acc, log) ==
    IF ii > n THEN [xy |-> acc, log |-> log]
    ELSE LET toff == IF log = <<>> THEN <<0, 0>>
                     ELSE VAdd(log[Len(log)].tmpl, log[Len(log)].res)
             pass == FitPass(img, toff, errs[ii])
         IN  PassLoop(img, errs, n, ii + 1, VAdd(acc, pass.res), Append(log, pass))

\* a variant that stops after the first pass
calc_psf_off_shift_one_pass(img, errs) == PassLoop(img, errs, 1, 1, <<0, 0>>, <<>>)

\* _calc_psf_off_shift: the value saved to self._xy_off_to_cen, and its passes
calc_psf_off_shift(img, errs) == PassLoop(img, errs, NPasses, 1, <<0, 0>>, <<>>)

ErrSeqs == [1 .. NPasses -> FitErrs]

(***************************************************************************)
(* __init__.  U is the universe of inputs the environment draws from.      *)
(***************************************************************************)
\* lines 70-78: the Lyot stop chosen from the name of the mask
ChoosePupil(mask) ==
    IF mask = NoMask THEN None
    ELSE IF LastChar(mask) = "R" THEN "CIRCLYOT"
    ELSE IF LastChar(mask) = "B" THEN "WEDGELYOT"
    ELSE IF HasToken(mask, "FQPM") THEN "MASKFQPM" ELSE "MASKLYOT"

\* lines 64-68: the extension class of the instrument (no else branch)
ChooseExt(inst) ==
    IF Upper(inst) = "NIRCAM" THEN "NIRCam_ext"
    ELSE IF Upper(inst) = "MIRI" THEN "MIRI_ext"
    ELSE Unset

\* np.linspace(-8,8,9)
BarXvals == linspace(-8, 8, 9)

\* lines 120-133: the on-axis reference, a cube of 9 along the bar or 1 image
InitialPsfOn(mask, kind) ==
    IF LastChar(mask) = "B"
    THEN [i \in 1 .. Len(BarXvals) |-> func_on(kind, BarXvals[i])]
    ELSE <<func_on(kind, 0)>>

\* _recenter_psfs: the centring shift applied to psf_on and to psf_off
Recentered(on, off, xy) ==
    [on |-> fourier_imshift_cube(on, xy[1], xy[2]),
     off |-> fourier_imshift_cube(off, xy[1], xy[2])]

InitFailed(ext, pm, mask, r) ==
    /\ pc' = "failed"
    /\ inst_ext' = ext
    /\ pupil_mask' = pm
    /\ image_mask' = mask
    /\ ret' = r
    /\ UNCHANGED <<inst_on, psf_on, psf_off, psf_bar_xvals, xy_off_to_cen, sp,
                   shift_attr, fitlog, built, nshift>>

Construct(U) ==
    /\ pc = "new"
    /\ \E b \in U.builds, accept \in BOOLEAN :
        LET inst == b.inst
            mask == b.mask
            spIn == b.sp
            tp == b.trans
            v3 == b.v3
            pk == b.peak
            kind == b.on
            errs == b.errs
            ext == ChooseExt(inst)
            pm == ChoosePupil(mask)
            rn == RenormInit(spIn)
            r0 == [NoRet EXCEPT !.op = "__init__",
                                !.args = [inst |-> inst, mask |-> mask, sp |-> spIn]]
        IN  IF ext = Unset
            THEN \* line 80: self.inst_ext does not exist
                 InitFailed(ext, pm, mask,
                            [r0 EXCEPT !.status = "AttributeError"])
            ELSE IF ~RecognizedMask(mask) /\ mask # NoMask /\ ~accept
            THEN \* line 80: the instrument class rejects the mask
                 InitFailed(ext, pm, mask, [r0 EXCEPT !.status = "ValueError"])
            ELSE IF rn.status = "raise"
            THEN \* lines 110-118
                 InitFailed(ext, pm, mask,
                            [r0 EXCEPT !.status = "SpectrumError",
                                       !.attempts = rn.attempts,
                                       !.rebuilt = rn.rebuilt])
            ELSE IF mask = NoMask
            THEN \* line 121: None[-1]
                 InitFailed(ext, pm, mask,
                            [r0 EXCEPT !.status = "TypeError",
                                       !.attempts = rn.attempts,
                                       !.rebuilt = rn.rebuilt])
            ELSE LET on0 == InitialPsfOn(mask, kind)
                     off0 == <<func_off(pk)>>
                     cs == calc_psf_off_shift(off0[1], errs)
                     rc == Recentered(on0, off0, cs.xy)
                 IN  /\ pc' = "ready"
                     /\ inst_ext' = ext
                     /\ pupil_mask' = pm
                     /\ image_mask' = mask
                     /\ inst_on' = [trans |-> tp, V3IdlYAngle |-> v3, on |-> kind,
                                     XSciScale |-> 2, YSciScale |-> 2]
                     /\ psf_bar_xvals' =
                            IF LastChar(mask) = "B" THEN BarXvals ELSE <<>>
                     /\ xy_off_to_cen' = cs.xy
                     /\ fitlog' = cs.log
                     /\ psf_on' = rc.on
                     /\ psf_off' = rc.off
                     /\ built' = <<rc.on, rc.off>>
                     /\ sp' = rn.sp
                     /\ ret' = [r0 EXCEPT !.status = "ok",
                                          !.attempts = rn.attempts,
                                          !.rebuilt = rn.rebuilt]
                     /\ UNCHANGED <<shift_attr, nshift>>

(***************************************************************************)
(* The methods that shift the references.                                  *)
(***************************************************************************)
CanCall == pc = "ready" /\ ret.op = "none"

\* a variant that also saves the centred template as self.psf_off
CalcPsfOffShift_saves_template(U) ==
    /\ CanCall
    /\ nshift < MaxShiftCalls
    /\ \E errs \in U.errs :
        LET cs == calc_psf_off_shift(psf_off[1], errs)
        IN  /\ xy_off_to_cen' = cs.xy
            /\ fitlog' = cs.log
            /\ psf_off' = fourier_imshift_cube(psf_off, cs.xy[1], cs.xy[2])
            /\ ret' = [NoRet EXCEPT !.op = "_calc_psf_off_shift", !.status = "ok"]
    /\ nshift' = nshift + 1
    /\ UNCHANGED <<pc, inst_ext, pupil_mask, image_mask, inst_on, psf_on,
                   psf_bar_xvals, sp, shift_attr, built>>

\* _calc_psf_off_shift(): saves self._xy_off_to_cen and nothing else
CalcPsfOffShift(U) ==
    /\ CanCall
    /\ nshift < MaxShiftCalls
    /\ \E errs \in U.errs :
        LET cs == calc_psf_off_shift(psf_off[1], errs)
        IN  /\ xy_off_to_cen' = cs.xy
            /\ fitlog' = cs.log
            /\ ret' = [NoRet EXCEPT !.op = "_calc_psf_off_shift", !.status = "ok"]
    /\ nshift' = nshift + 1
    /\ UNCHANGED <<pc, inst_ext, pupil_mask, image_mask, inst_on, psf_on, psf_off,
                   psf_bar_xvals, sp, shift_attr, built>>

\* _recenter_psfs(): _calc_psf_off_shift, then both references are shifted
RecenterPsfs(U) ==
    /\ CanCall
    /\ nshift < MaxShiftCalls
    /\ \E errs \in U.errs :
        LET cs == calc_psf_off_shift(psf_off[1], errs)
            rc == Recentered(psf_on, psf_off, cs.xy)
        IN  /\ xy_off_to_cen' = cs.xy
            /\ fitlog' = cs.log
            /\ psf_on' = rc.on
            /\ psf_off' = rc.off
            /\ ret' = [NoRet EXCEPT !.op = "_recenter_psfs", !.status = "ok",
                                    !.args = cs.xy]
    /\ nshift' = nshift + 1
    /\ UNCHANGED <<pc, inst_ext, pupil_mask, image_mask, inst_on, psf_bar_xvals,
                   sp, shift_attr, built>>

\* _shift_psfs(shifts): both references are shifted, xoff and yoff are saved
ShiftPsfs(U) ==
    /\ CanCall
    /\ nshift < MaxShiftCalls
    /\ \E shifts \in U.shifts :
        /\ psf_on' = fourier_imshift_cube(psf_on, shifts[1], shifts[2])
        /\ psf_off' = fourier_imshift_cube(psf_off, shifts[1], shifts[2])
        /\ shift_attr' = shifts
        /\ ret' = [NoRet EXCEPT !.op = "_shift_psfs", !.status = "ok",
                                !.args = shifts]
    /\ nshift' = nshift + 1
    /\ UNCHANGED <<pc, inst_ext, pupil_mask, image_mask, inst_on, psf_bar_xvals,
                   xy_off_to_cen, sp, fitlog, built>>

(***************************************************************************)
(* rth_to_xy.                                                              *)
(***************************************************************************)
\* lines 266-270: the aperture position angle of the conversion
ConvAngle(PA_V3, addV3Yidl) ==
    IF addV3Yidl THEN PA_V3 + inst_on.V3IdlYAngle ELSE PA_V3

\* rth_to_xy(r, th, PA_V3, frame_out, addV3Yidl) of one (r, th)
rth_to_xy(rth, PA_V3, frame_out, addV3Yidl) ==
    convert_from_idl(rtheta_to_xy(rth[1], rth[2] - ConvAngle(PA_V3, addV3Yidl)),
                     frame_out)

RthToXy(U) ==
    /\ CanCall
    /\ \E a \in U.rth :
        ret' = [NoRet EXCEPT
                  !.op = "rth_to_xy", !.status = "ok", !.args = a,
                  !.frames = <<rth_to_xy(a.loc, a.PA_V3, a.frame, a.addV3Yidl)>>,
                  !.conv = ConvAngle(a.PA_V3, a.addV3Yidl)]
    /\ UNCHANGED <<pc, inst_ext, pupil_mask, image_mask, inst_on, psf_on, psf_off,
                   psf_bar_xvals, xy_off_to_cen, sp, shift_attr, fitlog, built,
                   nshift>>

(***************************************************************************)
(* gen_psf_idl.                                                            *)
(***************************************************************************)
\* the spacing of the nodes of the bar interpolation
BarStep == BarXvals[2] - BarXvals[1]
\* the denominator of the pixel values gen_psf_idl returns
OutDen == TDen * TDen * BarStep

Scale(img, k) == [p \in DOMAIN img |-> k * img[p]]

\* _transmission_map(inst_on, coord_vals, coord_frame) for one position:
\* the amplitude transmission and the ideal-frame coordinates
transmission_map(xy, frame) ==
    LET idl == convert_to_idl(xy, frame)
    IN  [t |-> TransAt(inst_on.trans, idl[1], idl[2]), cx |-> idl[1], cy |-> idl[2]]

\* scipy interp1d(xvals, arr, kind='linear', fill_value='extrapolate', axis=0)
\* at cx: the node above is searchsorted(xvals, cx) clipped to 1..n-1, the
\* result (times the node spacing) is on the line through the two nodes
finterp(xvals, arr, cx) ==
    LET n == Len(xvals)
        below == Cardinality({i \in 1 .. n : xvals[i] < cx})
        hi == IF below + 1 < 2 THEN 2 ELSE IF below + 1 > n THEN n ELSE below + 1
        lo == hi - 1
    IN  [p \in Pix |->
            (arr[hi][p] - arr[lo][p]) * (cx - xvals[lo])
            + arr[lo][p] * (xvals[hi] - xvals[lo])]

\* lines 337-344: the on-axis reference of the blend, times BarStep: for a bar
\* mask one interpolated image per position, otherwise self.psf_on
SelectPsfOn(tm) ==
    IF LastChar(image_mask) = "B"
    THEN [i \in 1 .. Len(tm) |-> finterp(psf_bar_xvals, psf_on, tm[i].cx)]
    ELSE [i \in 1 .. Len(psf_on) |-> Scale(psf_on[i], BarStep)]

\* a variant that weights by the amplitude t, not by the intensity t**2
Avals_amplitude(tm) == [i \in 1 .. Len(tm) |-> tm[i].t * TDen]

\* lines 330-335: avals = t**2, bvals = 1 - avals, as numerators over TDen^2
Avals(tm) == [i \in 1 .. Len(tm) |-> tm[i].t * tm[i].t]
Bvals(tm) == [i \in 1 .. Len(tm) |-> TDen * TDen - Avals(tm)[i]]

\* lines 347-348: avals * psf_off + bvals * psf_on, one frame per position;
\* psf_on.reshape([1,ny,nx]) holds one image
Blend(tm, on1) ==
    [i \in 1 .. Len(tm) |->
        [p \in Pix |-> Avals(tm)[i] * BarStep * psf_off[1][p] + Bvals(tm)[i] * on1[p]]]

\* lines 351-362: the PSF of every position from self._func_on, then the
\* shift to the centre
Propagate(coords, frame) ==
    fourier_imshift_cube(
        [i \in 1 .. Len(coords) |->
            Scale(func_on(inst_on.on, convert_to_idl(coords[i], frame)[1]), OutDen)],
        xy_off_to_cen[1], xy_off_to_cen[2])

\* lines 364-379: every frame shifted by its own position, in oversampled pixels
ShiftFrames(psfs, coords, frame) ==
    [i \in 1 .. Len(psfs) |->
        LET idl == convert_to_idl(coords[i], frame)
            dx_pix == (Oversample * idl[1]) \div inst_on.XSciScale
            dy_pix == (Oversample * idl[2]) \div inst_on.YSciScale
        IN  fourier_imshift(psfs[i], dx_pix, dy_pix)]

\* a call that raised: no frames
Raised(kind, attempts) ==
    [status |-> kind, frames |-> <<>>, den |-> 1, steps |-> <<>>,
     attempts |-> attempts, rebuilt |-> FALSE]

\* lines 328-362: the frames before any positional shift
StepSynthesize(coords, frame, quick, attempts) ==
    LET tm == [i \in 1 .. Len(coords) |-> transmission_map(coords[i], frame)]
    IN  IF quick /\ Len(SelectPsfOn(tm)) # 1
        THEN Raised("ValueError", attempts)
        ELSE [status |-> "ok",
              frames |-> IF quick THEN Blend(tm, SelectPsfOn(tm)[1])
                         ELSE Propagate(coords, frame),
              den |-> OutDen,
              steps |-> IF quick THEN <<"blend">> ELSE <<"propagate", "center">>,
              attempts |-> attempts, rebuilt |-> FALSE]

\* lines 364-379: if do_shift
StepShift(r, on, coords, frame) ==
    IF r.status = "ok" /\ on
    THEN [r EXCEPT !.frames = ShiftFrames(r.frames, coords, frame),
                   !.steps = Append(r.steps, "shift")]
    ELSE r

\* lines 381-383 and 440-442: if not return_oversample
StepResample(r, on) ==
    IF r.status = "ok" /\ on
    THEN [r EXCEPT !.frames = frebin_cube(r.frames),
                   !.steps = Append(r.steps, "resample")]
    ELSE r

\* gen_psf_idl(coord_vals, coord_frame, quick, sp, return_oversample, do_shift):
\* the outcome, the frames (over OutDen) and the steps taken, in order
gen_psf_idl(coords, frame, quick, spq, return_oversample, do_shift) ==
    IF RenormQuery(spq).status = "raise"
    THEN Raised("SpectrumError", RenormQuery(spq).attempts)
    ELSE StepResample(
             StepShift(
                 StepSynthesize(coords, frame, quick, RenormQuery(spq).attempts),
                 do_shift, coords, frame),
             ~return_oversample)

\* the batches of positions a query is given
Batches(S) == UNION {[1 .. n -> S] : n \in 1 .. MaxBatch}

\* a variant that keeps the caller's renormalized spectrum as self.sp
GenPsfIdl_keeps_sp(U) ==
    /\ CanCall
    /\ \E a \in U.idl :
        LET r == gen_psf_idl(a.loc, a.frame, a.quick, a.sp, a.return_oversample,
                             a.do_shift)
        IN  /\ ret' = [NoRet EXCEPT
                         !.op = "gen_psf_idl", !.status = r.status, !.args = a,
                         !.frames = r.frames, !.den = OutDen, !.steps = r.steps,
                         !.attempts = r.attempts, !.rebuilt = r.rebuilt]
            /\ sp' = IF RenormQuery(a.sp).status = "ok" /\ a.sp # NoSp
                     THEN RenormQuery(a.sp).sp ELSE sp
    /\ UNCHANGED <<pc, inst_ext, pupil_mask, image_mask, inst_on, psf_on, psf_off,
                   psf_bar_xvals, xy_off_to_cen, shift_attr, fitlog, built,
                   nshift>>

GenPsfIdl(U) ==
    /\ CanCall
    /\ \E a \in U.idl :
        LET r == gen_psf_idl(a.loc, a.frame, a.quick, a.sp, a.return_oversample,
                             a.do_shift)
        IN  ret' = [NoRet EXCEPT
                      !.op = "gen_psf_idl", !.status = r.status, !.args = a,
                      !.frames = r.frames, !.den = OutDen, !.steps = r.steps,
                      !.attempts = r.attempts, !.rebuilt = r.rebuilt]
    /\ UNCHANGED <<pc, inst_ext, pupil_mask, image_mask, inst_on, psf_on, psf_off,
                   psf_bar_xvals, xy_off_to_cen, sp, shift_attr, fitlog, built,
                   nshift>>

(***************************************************************************)
(* gen_psf.                                                                *)
(***************************************************************************)
\* lines 436-438: the angle of the rotation to sky orientation
RotAngle(PA_V3) == -(PA_V3 + inst_on.V3IdlYAngle)

\* lines 444-447: psf / np.sum(psf): the numerators stay, the sum of the whole
\* array becomes the denominator (0 for the 0/0 of an array that sums to 0)
NormDen(frames) == SumFrames(frames)

\* lines 433-438: if do_shift, every frame is rotated to sky orientation
StepRotate(r, on, angle) ==
    IF r.status = "ok" /\ on
    THEN [r EXCEPT !.frames = rotate_cube(r.frames, angle),
                   !.steps = Append(r.steps, "rotate")]
    ELSE r

\* lines 444-447: if normalize == True
StepNormalize(r, on) ==
    IF r.status = "ok" /\ on
    THEN [r EXCEPT !.den = NormDen(r.frames),
                   !.steps = Append(r.steps, "normalize")]
    ELSE r

\* lines 422-427: the locations in the ideal frame
IdlLocs(loc, mode, PA_V3, addV3Yidl) ==
    IF mode = "rth"
    THEN [i \in 1 .. Len(loc) |-> rth_to_xy(loc[i], PA_V3, "idl", addV3Yidl)]
    ELSE loc

\* a variant that hands the caller's return_oversample on to gen_psf_idl
gen_psf_resamples_early(loc, mode, PA_V3, return_oversample, do_shift, addV3Yidl, normalize, quick, spq) ==
    IF mode \notin {"rth", "xy"}
    THEN Raised("UnboundLocalError", 0)
    ELSE StepNormalize(
             StepResample(
                 StepRotate(
                     gen_psf_idl(IdlLocs(loc, mode, PA_V3, addV3Yidl), "idl", quick,
                                 spq, return_oversample, do_shift),
                     do_shift, RotAngle(PA_V3)),
                 ~return_oversample),
             normalize)

\* gen_psf(loc, mode, PA_V3, return_oversample, do_shift, addV3Yidl, normalize,
\* quick=..., sp=...): the outcome, the frames, their denominator, the steps
gen_psf(loc, mode, PA_V3, return_oversample, do_shift, addV3Yidl, normalize, quick, spq) ==
    IF mode \notin {"rth", "xy"}
    THEN Raised("UnboundLocalError", 0)
    ELSE StepNormalize(
             StepResample(
                 StepRotate(
                     gen_psf_idl(IdlLocs(loc, mode, PA_V3, addV3Yidl), "idl", quick,
                                 spq, TRUE, do_shift),
                     do_shift, RotAngle(PA_V3)),
                 ~return_oversample),
             normalize)

GenPsf(U) ==
    /\ CanCall
    /\ \E a \in U.sky :
        LET r == gen_psf(a.loc, a.mode, a.PA_V3, a.return_oversample, a.do_shift,
                         a.addV3Yidl, a.normalize, a.quick, a.sp)
        IN  ret' = [NoRet EXCEPT
                      !.op = "gen_psf", !.status = r.status, !.args = a,
                      !.frames = r.frames, !.den = r.den, !.steps = r.steps,
                      !.attempts = r.attempts, !.rebuilt = r.rebuilt,
                      !.angle = RotAngle(a.PA_V3),
                      !.conv = ConvAngle(a.PA_V3, a.addV3Yidl)]
    /\ UNCHANGED <<pc, inst_ext, pupil_mask, image_mask, inst_on, psf_on, psf_off,
                   psf_bar_xvals, xy_off_to_cen, sp, shift_attr, fitlog, built,
                   nshift>>

\* the caller takes the result (or the exception) of the last call
Return ==
    /\ pc = "ready"
    /\ ret.op # "none"
    /\ ret' = NoRet
    /\ UNCHANGED <<pc, inst_ext, pupil_mask, image_mask, inst_on, psf_on, psf_off,
                   psf_bar_xvals, xy_off_to_cen, sp, shift_attr, fitlog, built,
                   nshift>>

(***************************************************************************)
(* The inputs the environment draws from, and the two specifications.      *)
(***************************************************************************)
PySp == [kind |-> "pysynphot", norm |-> FALSE, fits |-> TRUE]
SynSp == [kind |-> "synphot", norm |-> FALSE, fits |-> TRUE]

ZeroErrs == [i \in 1 .. NPasses |-> <<0, 0>>]
\* a fit whose last pass is off by one pixel in x
LastErrs == [i \in 1 .. NPasses |-> IF i = NPasses THEN <<1, 0>> ELSE <<0, 0>>]

BuildArgs(insts, masks, sps, trans, v3s, peaks, ons, errs) ==
    [inst : insts, mask : masks, sp : sps, trans : trans, v3 : v3s, peak : peaks,
     on : ons, errs : errs]

IdlArgs(locs, frames, quicks, sps, ross, doshs) ==
    [loc : locs, frame : frames, quick : quicks, sp : sps,
     return_oversample : ross, do_shift : doshs]

SkyArgs(locs, modes, pas, ross, doshs, adds, norms, quicks, sps) ==
    [loc : locs, mode : modes, PA_V3 : pas, return_oversample : ross,
     do_shift : doshs, addV3Yidl : adds, normalize : norms, quick : quicks,
     sp : sps]

RthArgs(locs, pas, frames, adds) ==
    [loc : locs, PA_V3 : pas, frame : frames, addV3Yidl : adds]

\* positions in the ideal frame: on the mask, beside it, between two nodes of
\* the bar, beyond the last node of the bar
XYs == {<<0, 0>>, <<1, 0>>, <<3, 1>>, <<-9, 0>>}
NearXYs == {<<0, 0>>, <<1, 0>>}
RThs == {<<1, 0>>, <<1, 90>>}
PAs == {0, 90}

\* the life of an object: every configuration, every spectrum, every fit,
\* the shifting methods, and a few queries
ULife ==
    [builds |->
        BuildArgs(InstNames, MaskNames, {NoSp}, {"graded"}, {0}, {CenPix},
                  {"spot"}, {ZeroErrs})
        \cup BuildArgs({"NIRCAM"}, {MASK335R}, Spectra, {"graded"}, {0}, {CenPix},
                       {"spot"}, {ZeroErrs})
        \cup BuildArgs({"NIRCAM"}, {MASK335R, MASKLWB}, {NoSp}, {"graded"}, {90},
                       OffPeaks, {"spot", "zero"}, ErrSeqs),
     errs |-> {ZeroErrs, LastErrs},
     shifts |-> {<<1, 0>>},
     idl |-> IdlArgs(Batches({<<1, 0>>}), {"idl"}, BOOLEAN, Spectra, {FALSE},
                     {TRUE}),
     sky |-> SkyArgs(Batches({<<1, 0>>}), {"xy", "radec"}, {0}, {FALSE}, {TRUE},
                     {TRUE}, BOOLEAN, {TRUE}, {NoSp, SynSp}),
     rth |-> RthArgs(RThs, PAs, Frames, BOOLEAN)]

\* the queries: a few objects, every option of gen_psf_idl and gen_psf
UQuery ==
    [builds |->
        BuildArgs({"NIRCAM"}, {MASK335R, MASKLWB}, {NoSp}, TransProfiles, V3Angles,
                  {CenPix}, OnKinds, {ZeroErrs, LastErrs}),
     errs |-> {ZeroErrs},
     shifts |-> {<<1, 0>>},
     idl |->
        IdlArgs(Batches(XYs), {"idl"}, {TRUE}, {NoSp}, {TRUE}, {FALSE})
        \cup IdlArgs(Batches(NearXYs), Frames, BOOLEAN, {NoSp, SynSp}, BOOLEAN,
                     BOOLEAN),
     sky |->
        SkyArgs(Batches(NearXYs), {"xy"}, PAs, BOOLEAN, BOOLEAN, BOOLEAN, BOOLEAN,
                BOOLEAN, {NoSp})
        \cup SkyArgs(Batches(RThs), {"rth"}, PAs, BOOLEAN, {TRUE}, BOOLEAN,
                     BOOLEAN, {TRUE}, {NoSp})
        \cup SkyArgs(Batches({<<0, 0>>}), {"radec"}, {0}, {FALSE}, {TRUE}, {TRUE},
                     {FALSE}, {TRUE}, {NoSp}),
     rth |-> RthArgs(RThs, PAs, {"idl"}, BOOLEAN)]

Next ==
    \/ Construct(ULife)
    \/ CalcPsfOffShift(ULife)
    \/ RecenterPsfs(ULife)
    \/ ShiftPsfs(ULife)
    \/ RthToXy(ULife)
    \/ GenPsfIdl(ULife)
    \/ GenPsf(ULife)
    \/ Return

Spec == Init /\ [][Next]_vars

NextQuery ==
    \/ Construct(UQuery)
    \/ RthToXy(UQuery)
    \/ GenPsfIdl(UQuery)
    \/ GenPsf(UQuery)
    \/ Return

SpecQuery == Init /\ [][NextQuery]_vars

(***************************************************************************)
(* The claims.                                                             *)
(***************************************************************************)
IsQuery(r) == r.op \in {"gen_psf_idl", "gen_psf"}

\* C1: every call of gen_psf_idl or gen_psf, whether it returns or raises,
\* leaves psf_on, psf_off, psf_bar_xvals, _xy_off_to_cen and self.sp as they
\* were before the call.
C1_QueriesKeepReferenceState ==
    [][IsQuery(ret') => refstate' = refstate]_vars

\* C1 witness: a query that raised on an object with a spectrum of its own
C1_Witness ==
    /\ pc = "ready"
    /\ IsQuery(ret)
    /\ ret.status = "SpectrumError"
    /\ sp # NoSp

\* C2 as claimed: after construction psf_on and psf_off always equal their
\* values at the end of __init__, whatever methods were called.
C2_ReferencesNeverChange ==
    pc = "ready" => <<psf_on, psf_off>> = built

\* C2 amended: after construction psf_on and psf_off change only in a call of
\* _shift_psfs or _recenter_psfs, which shifts both by the same amount; every
\* other method leaves them as they were.
C2_OnlyShiftMethodsChangeReferences ==
    [][(pc = "ready" /\ <<psf_on, psf_off>>' # <<psf_on, psf_off>>)
        => /\ ret'.op \in {"_shift_psfs", "_recenter_psfs"}
           /\ psf_on' = fourier_imshift_cube(psf_on, ret'.args[1], ret'.args[2])
           /\ psf_off' = fourier_imshift_cube(psf_off, ret'.args[1], ret'.args[2])
      ]_vars

\* C2 witness: _shift_psfs has moved the references away from what __init__ built
C2_Witness ==
    /\ pc = "ready"
    /\ ret.op = "_shift_psfs"
    /\ psf_on # built[1]
    /\ psf_off # built[2]

\* the segments of the bar nodes that linear interpolation or extrapolation
\* at cx uses
BarSegments(xvals, cx) ==
    {k \in 1 .. Len(xvals) - 1 :
        \/ xvals[k] <= cx /\ cx <= xvals[k + 1]
        \/ k = 1 /\ cx < xvals[1]
        \/ k = Len(xvals) - 1 /\ cx > xvals[Len(xvals)]}

\* the selected on-axis reference at pixel p for ideal position idl, times
\* BarStep: psf_on itself, or the point at cx on the line through two nodes
SelectedOn(idl, p) ==
    IF LastChar(image_mask) = "B"
    THEN LET k == CHOOSE j \in BarSegments(psf_bar_xvals, idl[1]) : TRUE
         IN  psf_on[k][p] * (psf_bar_xvals[k + 1] - idl[1])
             + psf_on[k + 1][p] * (idl[1] - psf_bar_xvals[k])
    ELSE BarStep * psf_on[1][p]

\* C3: quick, unshifted, oversampled gen_psf_idl returns for every position,
\* with t the transmission there, t^2 * psf_off + (1 - t^2) * psf_on_selected:
\* the off-axis reference itself at t = 1, the selected on-axis one at t = 0.
C3_QuickBlendIsTransmissionWeighted ==
    (/\ ret.op = "gen_psf_idl"
     /\ ret.status = "ok"
     /\ ret.args.quick
     /\ ~ret.args.do_shift
     /\ ret.args.return_oversample)
    => /\ Len(ret.frames) = Len(ret.args.loc)
       /\ ret.den = TDen * TDen * BarStep
       /\ \A i \in 1 .. Len(ret.args.loc) : \A p \in Pix :
            LET idl == convert_to_idl(ret.args.loc[i], ret.args.frame)
                t == TransAt(inst_on.trans, idl[1], idl[2])
            IN  /\ ret.frames[i][p] =
                      t * t * BarStep * psf_off[1][p]
                      + (TDen * TDen - t * t) * SelectedOn(idl, p)
                /\ t = TDen => ret.frames[i][p] = ret.den * psf_off[1][p]
                /\ t = 0 => ret.frames[i][p] = TDen * TDen * SelectedOn(idl, p)

\* C3 witness: a bar mask, a position between two nodes of the bar where the
\* mask transmits half the amplitude
C3_Witness ==
    /\ ret.op = "gen_psf_idl"
    /\ ret.status = "ok"
    /\ ret.args.quick /\ ~ret.args.do_shift /\ ret.args.return_oversample
    /\ LastChar(image_mask) = "B"
    /\ inst_on.on = "spot"
    /\ ret.args.loc = <<(<<1, 0>>)>>
    /\ ret.args.frame = "idl"
    /\ TransAt(inst_on.trans, 1, 0) \notin {0, TDen}

\* C4 as claimed: a batched call of gen_psf_idl or gen_psf succeeds and returns
\* one frame per position, the frame of the call at that position alone.
\* (Stated for calls with a valid mode, no spectrum and no normalization,
\* which are the subject of other claims.)
C4_BatchEqualsSingleCalls ==
    (/\ IsQuery(ret)
     /\ ret.status # "UnboundLocalError"
     /\ ret.args.sp = NoSp
     /\ ret.op = "gen_psf" => ~ret.args.normalize)
    => /\ ret.status = "ok"
       /\ Len(ret.frames) = Len(ret.args.loc)
       /\ \A i \in 1 .. Len(ret.args.loc) :
            LET a == ret.args
                one == IF ret.op = "gen_psf_idl"
                       THEN gen_psf_idl(<<a.loc[i]>>, a.frame, a.quick, a.sp,
                                        a.return_oversample, a.do_shift)
                       ELSE gen_psf(<<a.loc[i]>>, a.mode, a.PA_V3,
                                    a.return_oversample, a.do_shift, a.addV3Yidl,
                                    a.normalize, a.quick, a.sp)
            IN  /\ one.status = "ok"
                /\ one.frames[1] = ret.frames[i]
                /\ one.den = ret.den

\* C5 as claimed: with normalize=True every frame gen_psf returns sums to 1
\* (stated for the quick mode).
C5_NormalizedFramesSumToOne ==
    (ret.op = "gen_psf" /\ ret.status = "ok" /\ ret.args.normalize
     /\ ret.args.quick)
    => \A i \in 1 .. Len(ret.frames) :
            ret.den # 0 /\ np_sum(ret.frames[i]) = ret.den

\* C6 as claimed: an instrument other than NIRCAM/MIRI, or a mask name of no
\* recognized kind, makes __init__ raise: no pupil mask is chosen by
\* fall-through and no object becomes usable.
C6_UnrecognizedConfigurationRaises ==
    /\ (ret.op = "__init__" /\ ~RecognizedInst(ret.args.inst)) => pc = "failed"
    /\ (ret.op = "__init__" /\ ret.args.mask # NoMask
        /\ ~RecognizedMask(ret.args.mask))
       => (pc = "failed" /\ pupil_mask = Unset)

\* C7 as claimed: at both places a caller's spectrum is renormalized, a renorm
\* that fails is followed by a rebuild as an array spectrum and one more
\* renorm, so a spectrum of the second shape is accepted.
C7_RenormRetriesOnceAtBothSites ==
    (/\ ret.op \in {"__init__", "gen_psf_idl"}
     /\ ret.status \notin {"AttributeError", "ValueError"}
     /\ ret.args.sp.kind = "synphot")
    => /\ ret.attempts = 2
       /\ ret.rebuilt
       /\ ret.args.sp.fits => ret.status # "SpectrumError"

\* the place of a step in the order blend/propagate, centre, shift, rotate,
\* resample, normalize
Rank(step) ==
    CASE step \in {"blend", "propagate"} -> 1
      [] step = "center" -> 2
      [] step = "shift" -> 3
      [] step = "rotate" -> 4
      [] step = "resample" -> 5
      [] step = "normalize" -> 6

\* C8: the steps of every gen_psf call come in the order blend/propagate,
\* shift, rotate, resample, normalize: rotation is applied to the oversampled
\* image and resampling happens at most once, after it.
C8_StepsInFixedOrder ==
    (ret.op = "gen_psf" /\ ret.status = "ok")
    => /\ Len(ret.steps) >= 1
       /\ Rank(ret.steps[1]) = 1
       /\ \A i, j \in 1 .. Len(ret.steps) :
            i < j => Rank(ret.steps[i]) < Rank(ret.steps[j])
       /\ (\E i \in 1 .. Len(ret.steps) : ret.steps[i] = "rotate")
            <=> ret.args.do_shift
       /\ (\E i \in 1 .. Len(ret.steps) : ret.steps[i] = "resample")
            <=> ~ret.args.return_oversample
       /\ (\E i \in 1 .. Len(ret.steps) : ret.steps[i] = "normalize")
            <=> ret.args.normalize

\* C8 witness: a call that takes every step
C8_Witness ==
    /\ ret.op = "gen_psf"
    /\ ret.steps = <<"blend", "shift", "rotate", "resample", "normalize">>

\* C9: _calc_psf_off_shift makes exactly two fit passes, the second on the
\* template shifted by the residual of the first; _xy_off_to_cen is the sum of
\* the two residuals (window centre minus fitted centre); the call itself
\* leaves psf_off (and psf_on) alone.
C9_TwoPassesSumOfResiduals ==
    /\ [](pc = "ready"
          => /\ Len(fitlog) = 2
             /\ fitlog[1].tmpl = <<0, 0>>
             /\ fitlog[2].tmpl = fitlog[1].res
             /\ \A i \in 1 .. 2 : \A c \in 1 .. 2 :
                    2 * fitlog[i].res[c] = (XySub - 1) - fitlog[i].mean2[c]
             /\ xy_off_to_cen = <<fitlog[1].res[1] + fitlog[2].res[1],
                                  fitlog[1].res[2] + fitlog[2].res[2]>>)
    /\ [][ret'.op = "_calc_psf_off_shift"
            => psf_off' = psf_off /\ psf_on' = psf_on]_vars

\* C9 witness: a call of _calc_psf_off_shift whose two passes both moved the
\* template
C9_Witness ==
    /\ pc = "ready"
    /\ ret.op = "_calc_psf_off_shift"
    /\ Len(fitlog) = 2
    /\ fitlog[1].res # <<0, 0>>
    /\ fitlog[2].res # <<0, 0>>

\* C10 as claimed: in mode 'rth' with do_shift the image is rotated by the
\* negative of the aperture angle rth_to_xy subtracted from th, with
\* addV3Yidl True or False.
C10_RotationMatchesConversion ==
    (/\ ret.op = "gen_psf"
     /\ ret.status = "ok"
     /\ ret.args.mode = "rth"
     /\ ret.args.do_shift)
    => Deg(ret.angle) = Deg(-ret.conv)

====
